---- MODULE Spec2Model ----
(***************************************************************************)
(* Model of the Seek job scraper: the scrape-job orchestration            *)
(* (src/api/app.py and the job manager it calls), the crawl loop           *)
(* (src/scraper/seek_scraper.py) and the JSON file stores                  *)
(* (src/storage/json_storage.py).                                          *)
(***************************************************************************)
EXTENDS Integers, Sequences, FiniteSets, TLC

(***************************************************************************)
(* Bounds of the model.                                                    *)
(***************************************************************************)
MaxJobs == 2          \* scrape jobs that are triggered
MaxPages == 2         \* scraper.max_pages of the configuration
MaxTime == 2          \* the clock runs 1..MaxTime (days); earlier runs stamped day 0
RetentionDays == 1    \* retention_days of the storage
MaxCleanups == 1      \* calls of cleanup_old_jobs
MaxCalls == 3         \* direct calls of JSONStorage.save or DELETE /api/v1/webhooks
MaxCards == 3         \* job cards on a result page
MaxPieces == 3        \* text pieces a company name is made of
MaxWebhooks == 2      \* POST /api/v1/webhooks requests
MaxMatches == 2       \* next-page selectors that match on one page

JobIds == 1..MaxJobs
Urls == {"U1", "U2"}
Null == 0 - 1
NoError == "null"

\* Job (models/job.py): identity job_url and capture timestamp scraped_at.
Job(url, t) == [job_url |-> url, scraped_at |-> t]

\* Accepted listings one result page can yield, in document order.
PageListings == {<<"U1">>, <<"U2">>, <<"U1", "U2">>}
SiteListings == {<<"U1">>, <<"U1", "U2">>}

\* JobStatus values
PENDING == "pending"
RUNNING == "running"
COMPLETED == "completed"
FAILED == "failed"

VARIABLES
    requests,    \* POST /api/v1/scrape requests still to arrive
    max_pages,   \* SeekScraper.max_pages, from the configuration
    jobs,        \* job table of the job manager: job_id -> ScrapeJob
    scheduled,   \* background tasks added and not yet begun, per job
    runs,        \* run_scrape_job invocations begun, per job
    pc,          \* position of each job's run
    scr,         \* locals of SeekScraper.scrape for each run
    calls,       \* page-fetcher call log of each run
    sav,         \* locals of JSONStorage.save / _update_seen_jobs for each run
    exc,         \* message of the exception in flight in each run
    dedupView,   \* Dedup Store identities at run start and at the dedup check
    outputFile,  \* Record Store: contents of the jobs JSON file
    seenFile,    \* Dedup Store: contents of the seen-jobs JSON file
    cleanups,    \* number of cleanup_old_jobs calls made
    cleanupRet,  \* return value of the last cleanup_old_jobs call
    now,         \* datetime.now()
    api,         \* the last JSONStorage or webhook call made by a direct caller
    page,        \* job cards of the result page handed to _scrape_page
    extracted,   \* what _extract_job_data and _scrape_page made of that page
    excluded,    \* filters.excluded_subcategories / excluded_companies
    webhooks,    \* webhook registry of the job manager: id -> subscription
    asked,       \* events of every POST /api/v1/webhooks request, by id given
    deliveries,  \* webhook deliveries attempted
    nav          \* next-page controls met by the last _goto_next_page of each run

vars == <<requests, max_pages, jobs, scheduled, runs, pc, scr, calls, sav, exc, dedupView,
          outputFile, seenFile, cleanups, cleanupRet, now, api, page, extracted, excluded,
          webhooks, asked, deliveries, nav>>

extractorVars == <<page, extracted, excluded>>
webhookVars == <<webhooks, asked>>

(***************************************************************************)
(* Helpers on sequences and partial maps.                                  *)
(***************************************************************************)
RECURSIVE SelectSeqJobs(_, _)
\* [job for job in s if job.scraped_at > cutoff]
SelectSeqJobs(s, cutoff) ==
    IF s = <<>> THEN <<>>
    ELSE IF Head(s).scraped_at > cutoff
         THEN <<Head(s)>> \o SelectSeqJobs(Tail(s), cutoff)
         ELSE SelectSeqJobs(Tail(s), cutoff)

RECURSIVE MapJobs(_, _)
\* the Job objects built from a page's listings at time t
MapJobs(us, t) ==
    IF us = <<>> THEN <<>> ELSE <<Job(Head(us), t)>> \o MapJobs(Tail(us), t)

UrlsOf(s) == {s[i].job_url : i \in 1..Len(s)}

CountOf(s, x) == Cardinality({i \in 1..Len(s) : s[i] = x})

Min(a, b) == IF a <= b THEN a ELSE b

(***************************************************************************)
(* Text: a string is a sequence of characters.                             *)
(***************************************************************************)
UpperChars == <<"A", "C", "E", "G", "I", "L", "M", "N", "O", "P", "R", "T", "U", "Y">>
LowerChars == <<"a", "c", "e", "g", "i", "l", "m", "n", "o", "p", "r", "t", "u", "y">>

\* str.lower, one character
lower_char(c) ==
    IF \E i \in 1..Len(UpperChars) : UpperChars[i] = c
    THEN LowerChars[CHOOSE i \in 1..Len(UpperChars) : UpperChars[i] = c]
    ELSE c

\* str.lower
lower(s) == [i \in 1..Len(s) |-> lower_char(s[i])]

\* needle in hay, on strings
str_in(needle, hay) ==
    \E k \in 0..(Len(hay) - Len(needle)) :
        \A i \in 1..Len(needle) : hay[k + i] = needle[i]

RECURSIVE lstrip(_)
lstrip(s) == IF s # <<>> /\ Head(s) = " " THEN lstrip(Tail(s)) ELSE s

RECURSIVE rstrip(_)
rstrip(s) ==
    IF s # <<>> /\ s[Len(s)] = " " THEN rstrip(SubSeq(s, 1, Len(s) - 1)) ELSE s

\* str.strip
strip(s) == rstrip(lstrip(s))

Recruitment == <<"r", "e", "c", "r", "u", "i", "t", "m", "e", "n", "t">>
Agency == <<"a", "g", "e", "n", "c", "y">>
Unknown == <<"U", "n", "k", "n", "o", "w", "n">>

\* pieces the company names and sub-categories of the inputs are made of
pAcme == <<"A", "c", "m", "e", " ">>
pRecruit == <<"R", "e", "c", "r", "u", "i", "t">>
pMent == <<"m", "e", "n", "t">>
pIng == <<"i", "n", "g">>
pAgency == <<" ", "A", "g", "e", "n", "c", "y">>
pAGENCY == <<"A", "G", "E", "N", "C", "Y", " ">>
pPty == <<" ", "P", "t", "y", " ", "L", "t", "d">>
pOther == <<"O", "t", "h", "e", "r">>
Pieces == {pAcme, pRecruit, pMent, pIng, pAgency, pAGENCY, pPty}

RECURSIVE Texts(_)
\* the texts made of at most n pieces
Texts(n) ==
    IF n = 0 THEN {<<>>}
    ELSE Texts(n - 1) \cup {p \o t : p \in Pieces, t \in Texts(n - 1)}

AcmeRecruitmentAgency == pAcme \o pRecruit \o pMent \o pAgency \o pPty
AcmeRecruiting == pAcme \o pRecruit \o pIng

(***************************************************************************)
(* Extractor: job cards, _extract_job_data and _should_include_job.        *)
(***************************************************************************)
\* an element a selector chain finds in a card (its inner text), or nothing
Elem(text) == [found |-> TRUE, text |-> text]
NoElem == [found |-> FALSE, text |-> <<>>]

\* the href attribute of the title link
NoHref == [kind |-> "none", host |-> "", path |-> ""]
EmptyHref == [kind |-> "empty", host |-> "", path |-> ""]
RelHref(u) == [kind |-> "relative", host |-> "", path |-> u]
AbsHref(h, u) == [kind |-> "absolute", host |-> h, path |-> u]

\* scraper.base_url
base_url == "https://www.seek.com.au"

\* a job card: the title link, the company and classification elements, and
\* whether a call on the card raises while it is parsed
Card(title, href, company, subcategory, raises) ==
    [title |-> title, href |-> href, company |-> company,
     subcategory |-> subcategory, raises |-> raises]

\* urllib.parse.urljoin(base, href): an absolute href stands, a relative one
\* is resolved against the base
urljoin(base, href) ==
    IF href.kind = "absolute"
    THEN [host |-> href.host, path |-> href.path]
    ELSE [host |-> base, path |-> href.path]

\* the Job built by _extract_job_data (the fields the filters and the stores use)
CardJob(title, company, subcategory, job_url) ==
    [title |-> title, company |-> company, subcategory |-> subcategory,
     job_url |-> job_url]

\* text of an optional element with its fallback
TextOr(elem, fallback) == IF elem.found THEN strip(elem.text) ELSE fallback

\* _extract_job_data: <<>> for None, else the one Job
extract_job_data(card) ==
    IF ~card.title.found THEN <<>>
    ELSE IF card.href.kind \in {"none", "empty"} THEN <<>>
    ELSE IF card.raises THEN <<>>
    ELSE <<CardJob(strip(card.title.text),
                   TextOr(card.company, Unknown),
                   TextOr(card.subcategory, Unknown),
                   urljoin(base_url, card.href))>>

should_include_job_either(job, excl) ==
    /\ \A e \in excl.subcategories : ~str_in(lower(e), lower(job.subcategory))
    /\ ~(str_in(Recruitment, lower(job.company)) \/ str_in(Agency, lower(job.company)))
    /\ \A e \in excl.companies : ~str_in(lower(e), lower(job.company))

\* _should_include_job
should_include_job(job, excl) ==
    /\ \A e \in excl.subcategories : ~str_in(lower(e), lower(job.subcategory))
    /\ ~(str_in(Recruitment, lower(job.company)) /\ str_in(Agency, lower(job.company)))
    /\ \A e \in excl.companies : ~str_in(lower(e), lower(job.company))

CardsUntilError(card, rest) == IF card.raises THEN <<>> ELSE rest

\* for card in job_cards, each card in its own try block: the loop goes on to
\* the cards after this one whatever happened to it
CardsAfter(card, rest) == rest

RECURSIVE Candidates(_)
\* the Jobs _extract_job_data returns for the cards of a page, in order
Candidates(cards) ==
    IF cards = <<>> THEN <<>>
    ELSE extract_job_data(Head(cards))
            \o Candidates(CardsAfter(Head(cards), Tail(cards)))

RECURSIVE scrape_page_cards(_, _)
\* _scrape_page once the cards are found: the Jobs extracted and included
scrape_page_cards(cards, excl) ==
    IF cards = <<>> THEN <<>>
    ELSE LET job == extract_job_data(Head(cards))
             rest == scrape_page_cards(CardsAfter(Head(cards), Tail(cards)), excl)
         IN IF job # <<>> /\ should_include_job(job[1], excl)
            THEN job \o rest
            ELSE rest

RECURSIVE PathsOf(_)
\* the identities of a list of extracted Jobs, in order
PathsOf(js) ==
    IF js = <<>> THEN <<>> ELSE <<Head(js).job_url.path>> \o PathsOf(Tail(js))

NoExclusions == [subcategories |-> {}, companies |-> {}]
NotExtracted == [done |-> FALSE, candidates |-> <<>>, jobs |-> <<>>]

\* no card-level input: the pages are given by their accepted listings
NoCards ==
    /\ page = <<>>
    /\ extracted = NotExtracted
    /\ excluded = NoExclusions

(***************************************************************************)
(* Job: equality, hashing and the short identifier.                        *)
(***************************************************************************)
\* the characters of the site's address and of the paths of its job pages
HostChars == <<"h", "/", "/", "s">>
PathChars ==
    [U1 |-> <<"/", "j", "o", "b", "/", "1", "?", "t">>,
     U2 |-> <<"/", "j", "o", "b", "s", "/", "2">>]

\* job_url as a string
url_chars(job_url) == HostChars \o PathChars[job_url.path]

JobSep == <<"/", "j", "o", "b", "/">>

RECURSIVE split_last(_, _)
\* s.split(sep)[-1]: what follows the last of the occurrences of sep, taken
\* from the left without overlap
split_last(s, sep) ==
    IF str_in(sep, s)
    THEN LET k == CHOOSE k \in 0..(Len(s) - Len(sep)) :
                     /\ \A i \in 1..Len(sep) : s[k + i] = sep[i]
                     /\ \A m \in 0..(k - 1) : \E i \in 1..Len(sep) : s[m + i] # sep[i]
         IN split_last(SubSeq(s, k + Len(sep) + 1, Len(s)), sep)
    ELSE s

\* s.split(c)[0]: what precedes the first c
split_first(s, c) ==
    IF \E i \in 1..Len(s) : s[i] = c
    THEN SubSeq(s, 1, (CHOOSE i \in 1..Len(s) : s[i] = c /\ \A m \in 1..(i - 1) : s[m] # c) - 1)
    ELSE s

\* Job.job_id, on the characters of job_url
job_id_of(chars) ==
    IF str_in(JobSep, chars) THEN split_first(split_last(chars, JobSep), "?") ELSE chars

\* Job.job_id
job_id_str(job) == job_id_of(url_chars(job.job_url))

HashBits == 8
UrlAlphabet == <<"h", "/", "s", "j", "o", "b", "1", "2", "?", "t">>

RECURSIVE str_hash(_)
\* hash(str) within one process: a function of the characters alone
str_hash(s) ==
    IF s = <<>> THEN 0
    ELSE (31 * str_hash(SubSeq(s, 1, Len(s) - 1))
            + (CHOOSE i \in 1..Len(UrlAlphabet) : UrlAlphabet[i] = s[Len(s)])) % (2 ^ HashBits)

\* Job.__hash__
hash(job) == str_hash(url_chars(job.job_url))

eq_fields(a, b) == a = b

\* Job.__eq__ between two Jobs
eq(a, b) == a.job_url = b.job_url

\* a stored record as a Job: its job_url is its path on the site
StoredJob(r) == [r EXCEPT !.job_url = [host |-> base_url, path |-> r.job_url]]

(***************************************************************************)
(* Job manager: the job table and the background task queue.               *)
(***************************************************************************)
\* job_manager.create_job: a new ScrapeJob in PENDING, nothing reached yet
create_job(id, t) ==
    [job_id |-> id, status |-> PENDING, created_at |-> t,
     started_at |-> Null, completed_at |-> Null,
     jobs_found |-> 0, jobs_new |-> 0, error |-> NoError, results |-> <<>>]

add_task_twice(q, id) == [q EXCEPT ![id] = @ + 2]

add_task_none(q, id) == q

\* background_tasks.add_task(job_manager.run_scrape_job, job_id)
add_task(q, id) == [q EXCEPT ![id] = @ + 1]

\* GET /api/v1/scrape/{job_id}: 404 for an unknown id, else the job's fields
get_scrape_status(job_id) ==
    IF job_id \in DOMAIN jobs
    THEN [code |-> 200,
          status |-> jobs[job_id].status,
          started_at |-> jobs[job_id].started_at,
          completed_at |-> jobs[job_id].completed_at,
          jobs_found |-> jobs[job_id].jobs_found,
          jobs_new |-> jobs[job_id].jobs_new,
          error |-> jobs[job_id].error]
    ELSE [code |-> 404]

\* status=None: no status filter
NoFilter == "none"

RECURSIVE NewestFirst(_, _, _)
\* the jobs with ids n, n-1, .., 1 (latest created first) that pass the filter
NewestFirst(table, n, status) ==
    IF n = 0 THEN <<>>
    ELSE IF status = NoFilter \/ table[n].status = status
         THEN <<table[n]>> \o NewestFirst(table, n - 1, status)
         ELSE NewestFirst(table, n - 1, status)

\* job_manager.list_jobs: filtered by status, most recently created first,
\* capped at limit
list_jobs(status, limit) ==
    LET found == NewestFirst(jobs, Len(jobs), status)
    IN SubSeq(found, 1, Min(limit, Len(found)))

\* ScrapeStatusResponse of the list view: the job's fields without its results
StatusResponse(job) ==
    [job_id |-> job.job_id, status |-> job.status, created_at |-> job.created_at,
     started_at |-> job.started_at, completed_at |-> job.completed_at,
     jobs_found |-> job.jobs_found, jobs_new |-> job.jobs_new, error |-> job.error,
     results |-> Null]

\* the responses of a list of jobs, in order
Responses(js) == [i \in 1..Len(js) |-> StatusResponse(js[i])]

list_scrape_jobs_unfiltered(status, limit) == Responses(list_jobs(NoFilter, limit))

\* GET /api/v1/scrape: job_manager.list_jobs(status=status, limit=limit)
list_scrape_jobs(status, limit) == Responses(list_jobs(status, limit))

IdleScr == [page_num |-> 0, jobs |-> <<>>, browser |-> "none"]
EmptySeen == [u \in {} |-> 0]
IdleSav == [existing_jobs |-> <<>>, seen_jobs |-> EmptySeen, jobs_new |-> 0]
IdleView == [start |-> {}, check |-> {}]
IdleApi == [n |-> 0, op |-> "none", arg |-> <<>>, ret |-> "none", t |-> 0,
            cleanups |-> 0, again |-> FALSE]
NoWebhooks == [w \in {} |-> {}]
NoNav == [set |-> FALSE, ctl |-> <<>>, act |-> "ok", clicked |-> 0]

InitState ==
    /\ jobs = <<>>
    /\ scheduled = [j \in JobIds |-> 0]
    /\ runs = [j \in JobIds |-> 0]
    /\ pc = [j \in JobIds |-> "idle"]
    /\ scr = [j \in JobIds |-> IdleScr]
    /\ calls = [j \in JobIds |-> <<>>]
    /\ sav = [j \in JobIds |-> IdleSav]
    /\ exc = [j \in JobIds |-> NoError]
    /\ dedupView = [j \in JobIds |-> IdleView]
    \* files left by earlier runs: nothing, a seen identity whose records are in
    \* another day's output file, or a stored and seen record
    /\ \E seed \in {0, 1, 2} :
         /\ outputFile = IF seed = 2 THEN <<Job("U1", 0)>> ELSE <<>>
         /\ seenFile = IF seed = 0 THEN EmptySeen ELSE [u \in {"U1"} |-> 0]
    /\ cleanups = 0
    /\ cleanupRet = Null
    /\ now = 1
    /\ api = IdleApi
    /\ webhooks = NoWebhooks
    /\ asked = NoWebhooks
    /\ deliveries = {}
    /\ nav = [j \in JobIds |-> NoNav]

\* the whole service: concurrent jobs, each crawling a single page
Init ==
    /\ requests = MaxJobs
    /\ max_pages = 1
    /\ NoCards
    /\ InitState

\* one job at a time, every page cap up to MaxPages
InitCrawl ==
    /\ requests = 1
    /\ max_pages \in 1..MaxPages
    /\ NoCards
    /\ InitState

\* POST /api/v1/scrape
trigger_scrape ==
    /\ requests > 0
    /\ requests' = requests - 1
    /\ LET job_id == Len(jobs) + 1 IN
         /\ jobs' = Append(jobs, create_job(job_id, now))
         /\ scheduled' = add_task(scheduled, job_id)
    /\ UNCHANGED <<max_pages, runs, pc, scr, calls, sav, exc, dedupView, outputFile,
                   seenFile, cleanups, cleanupRet, now>>
    /\ UNCHANGED <<api, nav, extractorVars, webhookVars, deliveries>>

\* run_scrape_job begins: PENDING -> RUNNING, start timestamp
RunStart(j) ==
    /\ j \in DOMAIN jobs
    /\ scheduled[j] > 0
    /\ pc[j] \in {"idle", "done"}
    /\ scheduled' = [scheduled EXCEPT ![j] = @ - 1]
    /\ runs' = [runs EXCEPT ![j] = @ + 1]
    /\ jobs' = [jobs EXCEPT ![j].status = RUNNING, ![j].started_at = now]
    /\ pc' = [pc EXCEPT ![j] = "launch"]
    /\ scr' = [scr EXCEPT ![j] = IdleScr]
    /\ calls' = [calls EXCEPT ![j] = <<>>]
    /\ sav' = [sav EXCEPT ![j] = IdleSav]
    /\ exc' = [exc EXCEPT ![j] = NoError]
    /\ dedupView' = [dedupView EXCEPT ![j] = [start |-> DOMAIN seenFile, check |-> {}]]
    /\ UNCHANGED <<requests, max_pages, outputFile, seenFile, cleanups, cleanupRet, now>>
    /\ UNCHANGED <<api, nav, extractorVars, webhookVars, deliveries>>

(***************************************************************************)
(* SeekScraper.scrape: the crawl loop of one run.                          *)
(***************************************************************************)
NumSelectors == 6

\* what the six next-page selectors match on a page
Ctl(hidden, visible) ==
    [i \in 1..NumSelectors |->
        IF i \in visible THEN "visible"
        ELSE IF i \in hidden THEN "hidden" ELSE "absent"]

NextControls ==
    {Ctl({}, {}), Ctl({}, {1}), Ctl({1}, {}), Ctl({1}, {3}), Ctl({2}, {NumSelectors})}

NextActs == {"ok", "query_error", "click_error", "load_error"}

FirstFoundIfVisible(ctl) ==
    IF \E i \in 1..NumSelectors : ctl[i] # "absent"
    THEN LET found == CHOOSE i \in 1..NumSelectors :
                         /\ ctl[i] # "absent"
                         /\ \A k \in 1..(i - 1) : ctl[k] = "absent"
         IN IF ctl[found] = "visible" THEN found ELSE 0
    ELSE 0

\* index of the first selector whose match is visible, 0 when there is none
FirstVisible(ctl) ==
    IF \E i \in 1..NumSelectors : ctl[i] = "visible"
    THEN CHOOSE i \in 1..NumSelectors :
            /\ ctl[i] = "visible"
            /\ \A k \in 1..(i - 1) : ctl[k] # "visible"
    ELSE 0

goto_next_page_load_unguarded(ctl, act) ==
    IF act = "query_error" THEN [ret |-> FALSE, event |-> "query_error", clicked |-> 0]
    ELSE IF FirstVisible(ctl) = 0 THEN [ret |-> FALSE, event |-> "no_next", clicked |-> 0]
    ELSE IF act = "click_error"
         THEN [ret |-> FALSE, event |-> "click_error", clicked |-> FirstVisible(ctl)]
    ELSE IF act = "load_error"
         THEN [ret |-> TRUE, event |-> "load_error", clicked |-> FirstVisible(ctl)]
    ELSE [ret |-> TRUE, event |-> "click", clicked |-> FirstVisible(ctl)]

\* _goto_next_page: the value returned and the fetcher call that decided it
goto_next_page(ctl, act) ==
    IF act = "query_error" THEN [ret |-> FALSE, event |-> "query_error", clicked |-> 0]
    ELSE IF FirstVisible(ctl) = 0 THEN [ret |-> FALSE, event |-> "no_next", clicked |-> 0]
    ELSE IF act = "click_error"
         THEN [ret |-> FALSE, event |-> "click_error", clicked |-> FirstVisible(ctl)]
    ELSE IF act = "load_error"
         THEN [ret |-> FALSE, event |-> "load_error", clicked |-> FirstVisible(ctl)]
    ELSE [ret |-> TRUE, event |-> "click", clicked |-> FirstVisible(ctl)]

LoopContinuesBelowCap(page_num) == page_num < max_pages

\* while page_num <= self.max_pages
LoopContinues(page_num) == page_num <= max_pages

SwallowInScrape == "dedup"

RetryInScrape == "launch"

\* an exception inside scrape's try block has no handler: it leaves scrape
RaiseFromScrape == "fail"

EndCrawlNoFinally(j, s, to) ==
    /\ scr' = [scr EXCEPT ![j] = IF to = RaiseFromScrape THEN s
                                  ELSE [s EXCEPT !.browser = "closed"]]
    /\ pc' = [pc EXCEPT ![j] = to]

\* finally: browser.close(), then return jobs to the caller
EndCrawl(j, s, to) ==
    /\ scr' = [scr EXCEPT ![j] = [s EXCEPT !.browser = "closed"]]
    /\ pc' = [pc EXCEPT ![j] = to]

\* sync_playwright() and _launch_browser, outside the try block
Launch(j) ==
    /\ pc[j] = "launch"
    /\ \E ok \in BOOLEAN :
         IF ok
         THEN /\ scr' = [scr EXCEPT ![j].browser = "open"]
              /\ pc' = [pc EXCEPT ![j] = "goto"]
              /\ exc' = exc
         ELSE /\ exc' = [exc EXCEPT ![j] = "browser launch failed"]
              /\ pc' = [pc EXCEPT ![j] = "fail"]
              /\ scr' = scr
    /\ UNCHANGED <<requests, max_pages, jobs, scheduled, runs, calls, sav, dedupView, outputFile,
                   seenFile, cleanups, cleanupRet, now>>
    /\ UNCHANGED <<api, nav, extractorVars, webhookVars, deliveries>>

\* new_page, _set_page_defaults, page.goto(search_url), page_num = 1
Goto(j) ==
    /\ pc[j] = "goto"
    /\ \E ok \in BOOLEAN :
         IF ok
         THEN /\ exc' = exc
              /\ IF LoopContinues(1)
                 THEN /\ scr' = [scr EXCEPT ![j].page_num = 1]
                      /\ pc' = [pc EXCEPT ![j] = "scrape_page"]
                 ELSE EndCrawl(j, [scr[j] EXCEPT !.page_num = 1], "dedup")
         ELSE /\ exc' = [exc EXCEPT ![j] = "navigation failed"]
              /\ EndCrawl(j, scr[j], RaiseFromScrape)
    /\ UNCHANGED <<requests, max_pages, jobs, scheduled, runs, calls, sav, dedupView, outputFile,
                   seenFile, cleanups, cleanupRet, now>>
    /\ UNCHANGED <<api, nav, extractorVars, webhookVars, deliveries>>

\* _scrape_page and jobs.extend(page_jobs)
ScrapePage(j, listings) ==
    /\ pc[j] = "scrape_page"
    /\ \/ \* wait_for_selector times out: the page yields no jobs
          /\ calls' = [calls EXCEPT ![j] = Append(@, "wait_timeout")]
          /\ scr' = scr
          /\ pc' = [pc EXCEPT ![j] = "next_page"]
          /\ exc' = exc
       \/ \* the cards are extracted and filtered
          \E us \in listings :
             /\ calls' = [calls EXCEPT ![j] = Append(@, "wait_ok")]
             /\ scr' = [scr EXCEPT ![j].jobs = @ \o MapJobs(us, now)]
             /\ pc' = [pc EXCEPT ![j] = "next_page"]
             /\ exc' = exc
       \/ \* any other exception of the page calls is not caught here
          /\ calls' = [calls EXCEPT ![j] = Append(@, "wait_error")]
          /\ exc' = [exc EXCEPT ![j] = "page error"]
          /\ EndCrawl(j, scr[j], RaiseFromScrape)
    /\ UNCHANGED <<requests, max_pages, jobs, scheduled, runs, sav, dedupView, outputFile,
                   seenFile, cleanups, cleanupRet, now>>
    /\ UNCHANGED <<api, nav, page, excluded, webhookVars, deliveries>>

\* _scrape_page on a page given by its job cards
ScrapeCards(j) ==
    /\ ScrapePage(j, {PathsOf(scrape_page_cards(page, excluded))})
    /\ extracted' = IF calls'[j][Len(calls'[j])] = "wait_ok"
                    THEN [done |-> TRUE,
                          candidates |-> Candidates(page),
                          jobs |-> scrape_page_cards(page, excluded)]
                    ELSE extracted

\* if not self._goto_next_page(page): break; page_num += 1
GotoNextPage(j, controls, acts) ==
    /\ pc[j] = "next_page"
    /\ \E ctl \in controls, act \in acts :
         LET r == goto_next_page(ctl, act) IN
           /\ calls' = [calls EXCEPT ![j] = Append(@, r.event)]
           /\ IF r.ret /\ LoopContinues(scr[j].page_num + 1)
              THEN /\ scr' = [scr EXCEPT ![j].page_num = @ + 1]
                   /\ pc' = [pc EXCEPT ![j] = "scrape_page"]
              ELSE EndCrawl(j, [scr[j] EXCEPT !.page_num =
                                   IF r.ret THEN @ + 1 ELSE @], "dedup")
    /\ UNCHANGED <<requests, max_pages, jobs, scheduled, runs, sav, exc, dedupView, outputFile,
                   seenFile, cleanups, cleanupRet, now>>
    /\ UNCHANGED <<api, extractorVars, webhookVars, deliveries>>

(***************************************************************************)
(* JSONStorage: the Record Store and the Dedup Store.                      *)
(***************************************************************************)
exists_in_window(seen_jobs, url, t) ==
    url \in DOMAIN seen_jobs /\ seen_jobs[url] > t - RetentionDays

\* exists: job.job_url in seen_jobs
exists(seen_jobs, url, t) == url \in DOMAIN seen_jobs

NotStored(existing_jobs, job) == job.job_url \notin UrlsOf(existing_jobs)

save_merge_unseen(existing_jobs, new_jobs) ==
    existing_jobs \o SelectSeq(new_jobs, LAMBDA job : NotStored(existing_jobs, job))

\* save: all_jobs = existing_jobs + jobs
save_merge(existing_jobs, new_jobs) == existing_jobs \o new_jobs

update_seen_jobs_unpruned(seen_jobs, urls, t) ==
    [u \in DOMAIN seen_jobs \cup urls |-> IF u \in urls THEN t ELSE seen_jobs[u]]

update_seen_jobs_first_only(seen_jobs, urls, t) ==
    LET stamped == [u \in DOMAIN seen_jobs \cup urls |->
                       IF u \in DOMAIN seen_jobs THEN seen_jobs[u] ELSE t]
        kept == {u \in DOMAIN stamped : stamped[u] > t - RetentionDays}
    IN [u \in kept |-> stamped[u]]

\* _update_seen_jobs: stamp the given urls, then drop the entries at or before
\* the cutoff
update_seen_jobs(seen_jobs, urls, t) ==
    LET stamped == [u \in DOMAIN seen_jobs \cup urls |->
                       IF u \in urls THEN t ELSE seen_jobs[u]]
        kept == {u \in DOMAIN stamped : stamped[u] > t - RetentionDays}
    IN [u \in kept |-> stamped[u]]

\* the accepted jobs of the run that exists() reports as not seen
NewJobs(seen_jobs, js, t) ==
    {i \in 1..Len(js) : ~exists(seen_jobs, js[i].job_url, t)}

\* run_scrape_job after the crawl returned: jobs_new from exists()
Dedup(j) ==
    /\ pc[j] = "dedup"
    /\ sav' = [sav EXCEPT ![j].jobs_new =
                  Cardinality(NewJobs(seenFile, scr[j].jobs, now))]
    /\ dedupView' = [dedupView EXCEPT ![j].check = DOMAIN seenFile]
    /\ pc' = [pc EXCEPT ![j] = "save_load"]
    /\ UNCHANGED <<requests, max_pages, jobs, scheduled, runs, scr, calls, exc, outputFile,
                   seenFile, cleanups, cleanupRet, now>>
    /\ UNCHANGED <<api, nav, extractorVars, webhookVars, deliveries>>

\* save: existing_jobs = self.load()
SaveLoad(j) ==
    /\ pc[j] = "save_load"
    /\ sav' = [sav EXCEPT ![j].existing_jobs = outputFile]
    /\ pc' = [pc EXCEPT ![j] = "save_write"]
    /\ UNCHANGED <<requests, max_pages, jobs, scheduled, runs, scr, calls, exc, dedupView,
                   outputFile, seenFile, cleanups, cleanupRet, now>>
    /\ UNCHANGED <<api, nav, extractorVars, webhookVars, deliveries>>

\* save: merge and json.dump to the output file
SaveWrite(j) ==
    /\ pc[j] = "save_write"
    /\ \E ok \in BOOLEAN :
         IF ok
         THEN /\ outputFile' = save_merge(sav[j].existing_jobs, scr[j].jobs)
              /\ pc' = [pc EXCEPT ![j] = "seen_load"]
              /\ exc' = exc
         ELSE /\ outputFile' = outputFile
              /\ pc' = [pc EXCEPT ![j] = "fail"]
              /\ exc' = [exc EXCEPT ![j] = "output write failed"]
    /\ UNCHANGED <<requests, max_pages, jobs, scheduled, runs, scr, calls, sav, dedupView,
                   seenFile, cleanups, cleanupRet, now>>
    /\ UNCHANGED <<api, nav, extractorVars, webhookVars, deliveries>>

\* _update_seen_jobs: seen_jobs = self._load_seen_jobs()
SeenLoad(j) ==
    /\ pc[j] = "seen_load"
    /\ sav' = [sav EXCEPT ![j].seen_jobs = seenFile]
    /\ pc' = [pc EXCEPT ![j] = "seen_write"]
    /\ UNCHANGED <<requests, max_pages, jobs, scheduled, runs, scr, calls, exc, dedupView,
                   outputFile, seenFile, cleanups, cleanupRet, now>>
    /\ UNCHANGED <<api, nav, extractorVars, webhookVars, deliveries>>

\* _update_seen_jobs: stamp, prune and json.dump to the seen-jobs file
SeenWrite(j) ==
    /\ pc[j] = "seen_write"
    /\ \E ok \in BOOLEAN :
         IF ok
         THEN /\ seenFile' = update_seen_jobs(sav[j].seen_jobs, UrlsOf(scr[j].jobs), now)
              /\ pc' = [pc EXCEPT ![j] = "complete"]
              /\ exc' = exc
         ELSE /\ seenFile' = seenFile
              /\ pc' = [pc EXCEPT ![j] = "fail"]
              /\ exc' = [exc EXCEPT ![j] = "seen write failed"]
    /\ UNCHANGED <<requests, max_pages, jobs, scheduled, runs, scr, calls, sav, dedupView,
                   outputFile, cleanups, cleanupRet, now>>
    /\ UNCHANGED <<api, nav, extractorVars, webhookVars, deliveries>>

\* webhook event names
Events == {"scrape.completed", "scrape.failed"}

\* the subscriptions whose events include the event
Matching(event) == {w \in DOMAIN webhooks : event \in webhooks[w].events}

\* webhook dispatch: one delivery attempt per matching subscription, each of
\* which may fail without effect on the others or on the job
Dispatch(j, event) ==
    \E ok \in [Matching(event) -> BOOLEAN] :
        deliveries' = deliveries \cup
            {[webhook |-> w, event |-> event, job_id |-> j, ok |-> ok[w]] :
                w \in Matching(event)}

\* run_scrape_job on success: counters, completion timestamp, COMPLETED
Complete(j) ==
    /\ pc[j] = "complete"
    /\ jobs' = [jobs EXCEPT ![j].status = COMPLETED,
                            ![j].completed_at = now,
                            ![j].jobs_found = Len(scr[j].jobs),
                            ![j].jobs_new = sav[j].jobs_new,
                            ![j].results = scr[j].jobs]
    /\ Dispatch(j, "scrape.completed")
    /\ pc' = [pc EXCEPT ![j] = "done"]
    /\ UNCHANGED <<requests, max_pages, scheduled, runs, scr, calls, sav, exc, dedupView,
                   outputFile, seenFile, cleanups, cleanupRet, now>>
    /\ UNCHANGED <<api, nav, extractorVars, webhookVars>>

FailEveryRunning(j) ==
    /\ pc[j] = "fail"
    /\ jobs' = [k \in DOMAIN jobs |->
                  IF jobs[k].status = RUNNING
                  THEN [jobs[k] EXCEPT !.status = FAILED, !.completed_at = now,
                                       !.error = exc[j]]
                  ELSE jobs[k]]
    /\ Dispatch(j, "scrape.failed")
    /\ pc' = [pc EXCEPT ![j] = "done"]
    /\ UNCHANGED <<requests, max_pages, scheduled, runs, scr, calls, sav, exc, dedupView,
                   outputFile, seenFile, cleanups, cleanupRet, now>>
    /\ UNCHANGED <<api, nav, extractorVars, webhookVars>>

\* run_scrape_job catch-all: error message, completion timestamp, FAILED
Fail(j) ==
    /\ pc[j] = "fail"
    /\ jobs' = [jobs EXCEPT ![j].status = FAILED,
                            ![j].completed_at = now,
                            ![j].error = exc[j]]
    /\ Dispatch(j, "scrape.failed")
    /\ pc' = [pc EXCEPT ![j] = "done"]
    /\ UNCHANGED <<requests, max_pages, scheduled, runs, scr, calls, sav, exc, dedupView,
                   outputFile, seenFile, cleanups, cleanupRet, now>>
    /\ UNCHANGED <<api, nav, extractorVars, webhookVars>>

\* cleanup_old_jobs: the jobs newer than the cutoff
recent_jobs(js, t) == SelectSeqJobs(js, t - RetentionDays)

\* cleanup_old_jobs, with the save() it calls
cleanup_old_jobs ==
    /\ cleanups < MaxCleanups
    /\ cleanups' = cleanups + 1
    /\ LET loaded == outputFile
           recent == recent_jobs(loaded, now)
           removed_count == Len(loaded) - Len(recent)
       IN /\ cleanupRet' = removed_count
          /\ IF removed_count > 0
             THEN /\ outputFile' = save_merge(outputFile, recent)
                  /\ seenFile' = update_seen_jobs(seenFile, UrlsOf(recent), now)
             ELSE UNCHANGED <<outputFile, seenFile>>
    /\ UNCHANGED <<requests, max_pages, jobs, scheduled, runs, pc, scr, calls, sav, exc, dedupView, now>>
    /\ UNCHANGED <<api, nav, extractorVars, webhookVars, deliveries>>

\* the clock advances
Tick ==
    /\ now < MaxTime
    /\ now' = now + 1
    /\ UNCHANGED <<requests, max_pages, jobs, scheduled, runs, pc, scr, calls, sav, exc, dedupView,
                   outputFile, seenFile, cleanups, cleanupRet>>
    /\ UNCHANGED <<api, nav, extractorVars, webhookVars, deliveries>>

(***************************************************************************)
(* JSONStorage called directly, one call at a time.                        *)
(***************************************************************************)
\* the job lists handed to save
SaveInputs == {<<>>, <<"U1">>, <<"U2">>, <<"U1", "U2">>, <<"U2", "U2">>}

\* JSONStorage.save as one call: load, merge, write, then _update_seen_jobs;
\* either write may raise
save ==
    /\ api.n < MaxCalls
    /\ \E us \in SaveInputs, ret \in {"ok", "output write failed", "seen write failed"} :
         LET js == MapJobs(us, now) IN
           /\ outputFile' = IF ret = "output write failed" THEN outputFile
                             ELSE save_merge(outputFile, js)
           /\ seenFile' = IF ret = "ok" THEN update_seen_jobs(seenFile, UrlsOf(js), now)
                           ELSE seenFile
           /\ api' = [n |-> api.n + 1, op |-> "save", arg |-> js, ret |-> ret,
                       t |-> now, cleanups |-> cleanups,
                       again |-> /\ api.op = "save" /\ api.ret = "ok" /\ ret = "ok"
                                 /\ UrlsOf(api.arg) = UrlsOf(js)
                                 /\ api.t = now /\ api.cleanups = cleanups]
    /\ UNCHANGED <<requests, max_pages, jobs, scheduled, runs, pc, scr, calls, sav, exc,
                   dedupView, cleanups, cleanupRet, now>>
    /\ UNCHANGED <<nav, extractorVars, webhookVars, deliveries>>

(***************************************************************************)
(* Webhook endpoints.                                                      *)
(***************************************************************************)
registered_events_all(events) == Events

\* register_webhook: events=webhook.events
registered_events(events) == events

\* POST /api/v1/webhooks
register_webhook ==
    /\ Cardinality(DOMAIN asked) < MaxWebhooks
    /\ \E events \in SUBSET Events :
         LET webhook_id == Cardinality(DOMAIN asked) + 1 IN
           /\ webhooks' = [w \in DOMAIN webhooks \cup {webhook_id} |->
                              IF w = webhook_id
                              THEN [events |-> registered_events(events)]
                              ELSE webhooks[w]]
           /\ asked' = [w \in DOMAIN asked \cup {webhook_id} |->
                           IF w = webhook_id THEN events ELSE asked[w]]
    /\ UNCHANGED <<requests, max_pages, jobs, scheduled, runs, pc, scr, calls, sav, exc,
                   dedupView, outputFile, seenFile, cleanups, cleanupRet, now>>
    /\ UNCHANGED <<api, nav, extractorVars, deliveries>>

delete_webhook_status_204(success) == 204

\* delete_webhook: 404 when the job manager reports the id absent, else 204
delete_webhook_status(success) == IF success THEN 204 ELSE 404

\* DELETE /api/v1/webhooks/{webhook_id}
delete_webhook ==
    /\ api.n < MaxCalls
    /\ \E webhook_id \in 1..(MaxWebhooks + 1) :
         LET success == webhook_id \in DOMAIN webhooks IN
           /\ webhooks' = [w \in DOMAIN webhooks \ {webhook_id} |-> webhooks[w]]
           /\ api' = [n |-> api.n + 1, op |-> "delete_webhook", arg |-> webhook_id,
                       ret |-> [success |-> success,
                                code |-> delete_webhook_status(success)],
                       t |-> now, cleanups |-> cleanups, again |-> FALSE]
    /\ UNCHANGED <<requests, max_pages, jobs, scheduled, runs, pc, scr, calls, sav, exc,
                   dedupView, outputFile, seenFile, cleanups, cleanupRet, now>>
    /\ UNCHANGED <<asked, nav, extractorVars, deliveries>>

\* the pages on which at most MaxMatches of the six selectors match, each
\* match hidden or visible
NavControls ==
    {Ctl(h, v) : <<h, v>> \in
        {hv \in (SUBSET (1..NumSelectors)) \X (SUBSET (1..NumSelectors)) :
            hv[1] \cap hv[2] = {} /\ Cardinality(hv[1] \cup hv[2]) <= MaxMatches}}

\* _goto_next_page on any of these pages
ClickNext(j) ==
    \E ctl \in NavControls, act \in NextActs :
        /\ GotoNextPage(j, {ctl}, {act})
        /\ nav' = [nav EXCEPT ![j] = [set |-> TRUE, ctl |-> ctl, act |-> act,
                                       clicked |-> goto_next_page(ctl, act).clicked]]

\* the steps of one run before and between its pages
CrawlStep(j, controls, acts) ==
    \/ RunStart(j)
    \/ Launch(j)
    \/ Goto(j)
    \/ GotoNextPage(j, controls, acts) /\ nav' = nav

\* the steps of one run after its crawl
FinishStep(j) ==
    \/ Dedup(j)
    \/ SaveLoad(j)
    \/ SaveWrite(j)
    \/ SeenLoad(j)
    \/ SeenWrite(j)
    \/ Complete(j)
    \/ Fail(j)

Step(listings, controls, acts) ==
    \/ trigger_scrape
    \/ \E j \in JobIds : RunStart(j)
    \/ \E j \in JobIds : Launch(j)
    \/ \E j \in JobIds : Goto(j)
    \/ \E j \in JobIds : ScrapePage(j, listings) /\ extracted' = extracted
    \/ \E j \in JobIds : GotoNextPage(j, controls, acts) /\ nav' = nav
    \/ \E j \in JobIds : Dedup(j)
    \/ \E j \in JobIds : SaveLoad(j)
    \/ \E j \in JobIds : SaveWrite(j)
    \/ \E j \in JobIds : SeenLoad(j)
    \/ \E j \in JobIds : SeenWrite(j)
    \/ \E j \in JobIds : Complete(j)
    \/ \E j \in JobIds : Fail(j)
    \/ cleanup_old_jobs
    \/ Tick

\* concurrent jobs against a site of one-listing pages without a next control
Next == Step(SiteListings, {Ctl({}, {})}, {"ok"})

\* a single job against every behaviour of the page fetcher
NextCrawl == Step(PageListings, NextControls, NextActs)

Spec == Init /\ [][Next]_vars

SpecCrawl == InitCrawl /\ [][NextCrawl]_vars

\* every step of one run against every behaviour of the page fetcher
RunStep(j) ==
    \/ CrawlStep(j, NextControls, NextActs)
    \/ ScrapePage(j, PageListings) /\ extracted' = extracted
    \/ FinishStep(j)

\* the background task of a job, once added, keeps being run, and each of its
\* waits returns or times out
SpecLive == SpecCrawl /\ \A j \in JobIds : WF_vars(RunStep(j))

\* the cards a result page can hold: two well-formed ones, one without a title
\* link, one whose title link has blank text, two without a usable href, one
\* on which a call raises, and one of a recruitment agency
CardKinds ==
    {Card(Elem(<<"T">>), RelHref("U1"), Elem(pAcme), Elem(pOther), FALSE),
     Card(Elem(<<" ", "T", " ">>), AbsHref(base_url, "U2"), NoElem, NoElem, FALSE),
     Card(NoElem, NoHref, Elem(pAcme), Elem(pOther), FALSE),
     Card(Elem(<<" ">>), RelHref("U2"), Elem(pAcme), Elem(pOther), FALSE),
     Card(Elem(<<"T">>), NoHref, Elem(pAcme), Elem(pOther), FALSE),
     Card(Elem(<<"T">>), EmptyHref, Elem(pAcme), Elem(pOther), FALSE),
     Card(Elem(<<"T">>), RelHref("U1"), Elem(pAcme), Elem(pOther), TRUE),
     Card(Elem(<<"T">>), RelHref("U2"), Elem(pAGENCY \o pRecruit \o pMent),
          Elem(pOther), FALSE)}

RECURSIVE Pages(_)
\* the result pages of at most n cards
Pages(n) ==
    IF n = 0 THEN {<<>>}
    ELSE Pages(n - 1) \cup {<<c>> \o p : c \in CardKinds, p \in Pages(n - 1)}

\* one job whose single result page is given by its cards
InitExtract ==
    /\ requests = 1
    /\ max_pages = 1
    /\ page \in Pages(MaxCards)
    /\ extracted = NotExtracted
    /\ excluded = NoExclusions
    /\ InitState

\* company and classification elements of the cards handed to the filter
CompanyElems ==
    {Elem(t) : t \in Texts(MaxPieces) \cup {AcmeRecruitmentAgency}} \cup {NoElem}
SubcategoryElems ==
    {Elem(pOther), Elem(pRecruit \o pMent), Elem(pRecruit \o pMent \o pAgency), NoElem}

\* the configured exclusion lists
Exclusions ==
    [subcategories : {{}, {<<"A", "G", "E", "N", "C", "Y">>}},
     companies : {{}, {<<"A", "C", "M", "E">>}}]

\* one job whose single result page holds one well-formed card, the stores
\* being empty
InitFilter ==
    /\ requests = 1
    /\ max_pages = 1
    /\ page \in {<<Card(Elem(<<"T">>), RelHref("U1"), c, s, FALSE)>> :
                    c \in CompanyElems, s \in SubcategoryElems}
    /\ extracted = NotExtracted
    /\ excluded \in Exclusions
    /\ InitState
    /\ outputFile = <<>>
    /\ seenFile = EmptySeen

NextExtract ==
    \/ trigger_scrape
    \/ \E j \in JobIds : CrawlStep(j, {Ctl({}, {})}, {"ok"})
    \/ \E j \in JobIds : ScrapeCards(j)
    \/ \E j \in JobIds : FinishStep(j)

SpecExtract == InitExtract /\ [][NextExtract]_vars

SpecFilter == InitFilter /\ [][NextExtract]_vars

\* one job whose result page is given by its cards, and a cleanup of the
\* Record Store at any moment
NextRecords ==
    \/ trigger_scrape
    \/ \E j \in JobIds : CrawlStep(j, {Ctl({}, {})}, {"ok"})
    \/ \E j \in JobIds : ScrapeCards(j)
    \/ \E j \in JobIds : FinishStep(j)
    \/ cleanup_old_jobs

SpecRecords == InitExtract /\ [][NextRecords]_vars

\* one job, with webhooks registered and deleted at any moment
InitHooks ==
    /\ requests = 1
    /\ max_pages = 1
    /\ NoCards
    /\ InitState

NextHooks ==
    \/ trigger_scrape
    \/ \E j \in JobIds : CrawlStep(j, {Ctl({}, {})}, {"ok"})
    \/ \E j \in JobIds : ScrapePage(j, {<<"U1">>}) /\ extracted' = extracted
    \/ \E j \in JobIds : FinishStep(j)
    \/ register_webhook
    \/ delete_webhook

SpecHooks == InitHooks /\ [][NextHooks]_vars

\* concurrent jobs that are triggered once the webhooks are registered, the
\* stores being empty
InitNotify ==
    /\ Init
    /\ outputFile = <<>>
    /\ seenFile = EmptySeen

Registered == Cardinality(DOMAIN asked) = MaxWebhooks

NextNotify ==
    \/ register_webhook
    \/ Registered /\ trigger_scrape
    \/ \E j \in JobIds : Registered /\ CrawlStep(j, {Ctl({}, {})}, {"ok"})
    \/ \E j \in JobIds : Registered /\ ScrapePage(j, SiteListings) /\ extracted' = extracted
    \/ \E j \in JobIds : Registered /\ FinishStep(j)

SpecNotify == InitNotify /\ [][NextNotify]_vars

\* one job whose every page shows any combination of next-page controls
NextNav ==
    \/ trigger_scrape
    \/ \E j \in JobIds : RunStart(j)
    \/ \E j \in JobIds : Launch(j)
    \/ \E j \in JobIds : Goto(j)
    \/ \E j \in JobIds : ScrapePage(j, {<<"U1">>}) /\ extracted' = extracted
    \/ \E j \in JobIds : ClickNext(j)
    \/ \E j \in JobIds : FinishStep(j)

SpecNav == InitCrawl /\ [][NextNav]_vars

\* the storage on its own: no job is triggered
InitStore ==
    /\ requests = 0
    /\ max_pages = 1
    /\ NoCards
    /\ InitState

NextStore ==
    \/ save
    \/ cleanup_old_jobs
    \/ Tick

SpecStore == InitStore /\ [][NextStore]_vars

(***************************************************************************)
(* Properties.                                                             *)
(***************************************************************************)
Terminal == {COMPLETED, FAILED}

StatusSteps == {<<PENDING, RUNNING>>, <<RUNNING, COMPLETED>>, <<RUNNING, FAILED>>}

\* C1: a job enters the table PENDING and its status only ever moves
\* PENDING -> RUNNING -> COMPLETED | FAILED; a terminal status never changes.
C1_StatusTransitions ==
    [][/\ \A j \in DOMAIN jobs :
             /\ j \in DOMAIN jobs'
             /\ \/ jobs'[j].status = jobs[j].status
                \/ <<jobs[j].status, jobs'[j].status>> \in StatusSteps
       /\ \A j \in DOMAIN jobs' \ DOMAIN jobs : jobs'[j].status = PENDING]_vars

C1_Witness ==
    \E j, k \in DOMAIN jobs :
        /\ jobs[j].status = COMPLETED /\ pc[j] = "done"
        /\ jobs[k].status = FAILED /\ pc[k] = "done"

RECURSIVE AppendedCopies(_, _)
\* copies of the record r that the completed runs 1..n appended
AppendedCopies(r, n) ==
    IF n = 0 THEN 0
    ELSE (IF jobs[n].status = COMPLETED THEN CountOf(jobs[n].results, r) ELSE 0)
         + AppendedCopies(r, n - 1)

AllJobsFinished ==
    /\ requests = 0
    /\ \A j \in DOMAIN jobs : pc[j] = "done"

CrawlErrors == {"browser launch failed", "navigation failed", "page error"}

\* scrape() has returned its list to the caller
CrawlReturned(j) == scr[j].browser = "closed" /\ exc[j] \notin CrawlErrors

\* every crawl that has returned so far returned at least one record
NoEmptyCrawl == \A j \in JobIds : CrawlReturned(j) => scr[j].jobs # <<>>

\* C2: once every job has finished, the Record Store holds every record the
\* completed runs appended (as many copies as were appended) and the Dedup Store
\* holds every identity they marked that is still inside the retention window
\* (stated for runs that each had at least one record to save).
C2_NoLostUpdates ==
    (AllJobsFinished /\ NoEmptyCrawl) =>
        /\ \A j \in DOMAIN jobs : \A i \in 1..Len(jobs[j].results) :
              CountOf(outputFile, jobs[j].results[i])
                  >= AppendedCopies(jobs[j].results[i], Len(jobs))
        /\ \A j \in DOMAIN jobs :
              (jobs[j].status = COMPLETED /\ jobs[j].started_at > now - RetentionDays)
                  => UrlsOf(jobs[j].results) \subseteq DOMAIN seenFile

\* the counters of a completed run, against a given view of the Dedup Store
CountersAgree(j, seen_urls) ==
    LET st == get_scrape_status(j) IN
      /\ st.jobs_found >= st.jobs_new
      /\ st.jobs_new >= 0
      /\ st.jobs_found = Len(jobs[j].results)
      /\ st.jobs_new = Cardinality({i \in 1..Len(jobs[j].results) :
                                      jobs[j].results[i].job_url \notin seen_urls})

C4_IsSeenWithinWindow ==
    \A u \in Urls :
        /\ exists(seenFile, u, now)
              => (u \in DOMAIN seenFile /\ seenFile[u] >= now - RetentionDays)
        /\ exists_in_window(seenFile, u, now) => exists(seenFile, u, now)

\* C5: a cleanup_old_jobs call leaves exactly the stored records captured at or
\* after the cutoff (a record captured exactly at the cutoff may go either way)
\* and returns the number of records the store lost.
C5_CleanupKeepsRecent ==
    [][cleanups' # cleanups =>
         /\ \/ outputFile' = SelectSeqJobs(outputFile, now - RetentionDays)
            \/ outputFile' = SelectSeqJobs(outputFile, now - RetentionDays - 1)
         /\ cleanupRet' = Len(outputFile) - Len(outputFile')]_vars

Activations == {"click", "click_error", "load_error"}
PageCalls == {"wait_ok", "wait_timeout", "wait_error"}

\* C6: once the wait for the listings container has timed out on a page, the
\* run makes no further next-page activation and extracts no further page.
C6_TimeoutStopsRun ==
    \A j \in JobIds : \A i, k \in 1..Len(calls[j]) :
        (i < k /\ calls[j][i] = "wait_timeout")
            => calls[j][k] \notin Activations \cup PageCalls

\* pages handed to _scrape_page
Extracted(j) ==
    Cardinality({i \in 1..Len(calls[j]) : calls[j][i] \in PageCalls})

\* the pages whose next-page step logged one of the given events
PagesWhere(j, events) ==
    {p \in 1..MaxPages : 2 * p <= Len(calls[j]) /\ calls[j][2 * p] \in events}

FirstOf(S) == CHOOSE p \in S : \A q \in S : p <= q

PagesExpected(j, stops) ==
    IF PagesWhere(j, stops) = {} THEN max_pages
    ELSE Min(max_pages, FirstOf(PagesWhere(j, stops)))

\* C7 as stated: a run extracts min(max_pages, k) pages, k the first page on
\* which no visible next-page control is found.
C7_PagesUntilNoControl ==
    \A j \in JobIds :
        CrawlReturned(j) => Extracted(j) = PagesExpected(j, {"no_next"})

\* C7 amended: a run that returns extracts min(max_pages, k) pages, k the first
\* page on which the next-page step does not advance: no visible control is
\* found, or locating it, the click or the load-state wait raises.
C7_PagesUntilNoAdvance ==
    \A j \in JobIds :
        CrawlReturned(j) =>
            Extracted(j) = PagesExpected(j, {"no_next", "query_error",
                                             "click_error", "load_error"})

C7_Witness ==
    \E j \in JobIds :
        /\ CrawlReturned(j)
        /\ max_pages = MaxPages
        /\ Extracted(j) = MaxPages
        /\ PagesWhere(j, {"click"}) = 1..MaxPages

\* C8: an exception raised anywhere in a run is caught by run_scrape_job: the
\* run is either about to record it or has ended FAILED with that message and a
\* completion timestamp, and never continues as if nothing was raised.
C8_FailureEndsFailed ==
    \A j \in DOMAIN jobs :
        /\ exc[j] # NoError =>
              \/ pc[j] = "fail" /\ jobs[j].status = RUNNING
              \/ /\ pc[j] = "done"
                 /\ get_scrape_status(j).status = FAILED
                 /\ get_scrape_status(j).error = exc[j]
                 /\ get_scrape_status(j).error # NoError
                 /\ get_scrape_status(j).completed_at # Null
        /\ pc[j] = "done" => jobs[j].status \in Terminal

C8_Witness ==
    \E j, k \in DOMAIN jobs :
        /\ jobs[j].status = FAILED /\ jobs[j].error = "output write failed"
        /\ jobs[j].completed_at # Null
        /\ runs[k] = 1 /\ jobs[k].status = COMPLETED

\* C9: the Record Store holds a record for every identity a completed run
\* accepted (stated for runs that each had at least one record to save).
C9_AcceptedAreStored ==
    \A j \in DOMAIN jobs :
        (jobs[j].status = COMPLETED /\ NoEmptyCrawl)
            => UrlsOf(jobs[j].results) \subseteq UrlsOf(outputFile)

\* C10: every triggered job has exactly one run_scrape_job scheduled or begun,
\* and until that run begins the job is reported PENDING with null start and
\* completion timestamps and no crawl work has been done for it.
C10_FreshJobPending ==
    \A j \in DOMAIN jobs :
        /\ scheduled[j] + runs[j] = 1
        /\ runs[j] = 0 =>
              /\ get_scrape_status(j).code = 200
              /\ get_scrape_status(j).status = PENDING
              /\ get_scrape_status(j).started_at = Null
              /\ get_scrape_status(j).completed_at = Null
              /\ pc[j] = "idle" /\ scr[j] = IdleScr /\ calls[j] = <<>>

C10_Witness ==
    \E j, k \in DOMAIN jobs :
        /\ runs[j] = 0 /\ jobs[j].status = PENDING
        /\ jobs[k].status = RUNNING /\ pc[k] = "scrape_page"

\* C11: a job's timestamps agree with its status: started_at is set exactly in
\* RUNNING, COMPLETED and FAILED, completed_at exactly in COMPLETED and FAILED,
\* completed_at is never before started_at, and a FAILED job has an error.
C11_TimestampsAgree ==
    \A j \in DOMAIN jobs :
        LET r == get_scrape_status(j) IN
          /\ r.started_at # Null <=> r.status \in {RUNNING, COMPLETED, FAILED}
          /\ r.completed_at # Null <=> r.status \in Terminal
          /\ (r.started_at # Null /\ r.completed_at # Null)
                => r.completed_at >= r.started_at
          /\ r.status = FAILED => r.error # NoError

C11_Witness ==
    \E j, k \in DOMAIN jobs :
        /\ jobs[j].status = COMPLETED /\ jobs[j].completed_at > jobs[j].started_at
        /\ jobs[k].status = FAILED /\ jobs[k].error # NoError
        /\ jobs[k].started_at > jobs[k].created_at

\* a save call that returned normally was just made
SaveReturned == api'.n # api.n /\ api'.op = "save" /\ api'.ret = "ok"

\* C12: a save's marking of identities at time now leaves every given identity
\* stamped now, leaves every other surviving entry with the timestamp it had,
\* keeps every other entry newer than now - RetentionDays, and leaves no entry
\* older than now - RetentionDays, whatever identities it was given.
C12_MarkSeenStampsAndPrunes ==
    [][SaveReturned =>
         LET given == UrlsOf(api'.arg) IN
           /\ \A u \in given : u \in DOMAIN seenFile' /\ seenFile'[u] = now
           /\ \A u \in DOMAIN seenFile' \ given :
                 u \in DOMAIN seenFile /\ seenFile'[u] = seenFile[u]
           /\ \A u \in DOMAIN seenFile \ given :
                 seenFile[u] > now - RetentionDays => u \in DOMAIN seenFile'
           /\ \A u \in DOMAIN seenFile' : seenFile'[u] >= now - RetentionDays]_vars

\* a first save of other identities has removed the expired entry of a stored
\* record
C12_Witness ==
    /\ api.n = 1 /\ api.op = "save" /\ api.ret = "ok" /\ cleanups = 0
    /\ api.t = MaxTime
    /\ UrlsOf(api.arg) = {"U2"}
    /\ outputFile = <<Job("U1", 0), Job("U2", MaxTime)>>
    /\ DOMAIN seenFile = {"U2"} /\ seenFile["U2"] = MaxTime

\* C13: marking is idempotent: a save that repeats the previous save's
\* identities at the same timestamp, with nothing in between, leaves the Dedup
\* Store exactly as the first one left it.
C13_MarkSeenIdempotent ==
    [][(SaveReturned /\ api'.again) => seenFile' = seenFile]_vars

\* the repeated save gave an identity whose earlier entry had expired
C13_Witness ==
    /\ api.op = "save" /\ api.again /\ cleanups = 0
    /\ "U1" \in UrlsOf(api.arg)
    /\ Job("U1", 0) \in {outputFile[i] : i \in 1..Len(outputFile)}
    /\ api.t = MaxTime
    /\ seenFile["U1"] = MaxTime

\* C14: a save appends: afterwards the Record Store is its previous content
\* followed by the given records in their order, so that nothing stored is
\* removed or changed and a record whose identity is already stored is stored
\* again.
C14_SaveAppends ==
    [][(api'.n # api.n /\ api'.op = "save" /\ api'.ret # "output write failed")
          => outputFile' = outputFile \o api'.arg]_vars

\* two saves of the same identity have left two records of it in the store
C14_Witness ==
    /\ api.n = 2 /\ api.op = "save" /\ api.ret = "ok" /\ cleanups = 0
    /\ api.arg = <<Job("U1", MaxTime)>>
    /\ outputFile = <<Job("U1", 0), Job("U1", 1), Job("U1", MaxTime)>>

\* text contains part, whatever the case of either
ContainsIgnoringCase(text, part) ==
    \E i \in 1..(Len(text) - Len(part) + 1) :
        lower(SubSeq(text, i, i + Len(part) - 1)) = lower(part)

\* the job rejected by one of the three rules of the filter
Rejectable(job, excl) ==
    \/ \E e \in excl.subcategories : ContainsIgnoringCase(job.subcategory, e)
    \/ /\ ContainsIgnoringCase(job.company, Recruitment)
       /\ ContainsIgnoringCase(job.company, Agency)
    \/ \E e \in excl.companies : ContainsIgnoringCase(job.company, e)

\* C15: a candidate is left out of the page's jobs exactly when its
\* sub-category contains an excluded sub-category, its company contains both
\* "recruitment" and "agency", or its company contains an excluded company,
\* case-insensitively; "Acme Recruitment Agency Pty Ltd" is left out with no
\* exclusion configured and "Acme Recruiting" is not.
C15_FilterRules ==
    extracted.done =>
        /\ Len(extracted.candidates) = 1
        /\ LET job == extracted.candidates[1]
               rejected == extracted.jobs = <<>>
           IN /\ rejected <=> Rejectable(job, excluded)
              /\ ~rejected => extracted.jobs = <<job>>
              /\ job.company = AcmeRecruitmentAgency => rejected
              /\ (job.company = AcmeRecruiting /\ excluded = NoExclusions) => ~rejected

C15_Witness ==
    /\ extracted.done
    /\ excluded = NoExclusions
    /\ extracted.candidates[1].company = AcmeRecruitmentAgency
    /\ extracted.jobs = <<>>
    /\ \E j \in DOMAIN jobs : jobs[j].status = COMPLETED /\ jobs[j].jobs_found = 0

\* the cards that have a title link with a usable href
Resolvable(cards) ==
    {i \in 1..Len(cards) :
        cards[i].title.found /\ cards[i].href.kind \notin {"none", "empty"}}

NoCardRaises == \A i \in 1..Len(page) : ~page[i].raises

\* C16: of the cards of a page (none of which raises while parsed) exactly
\* those with no title link or no href are skipped, each other card gives one
\* candidate, and every candidate has a non-empty title and a non-empty
\* absolute URL.
C16_CandidatesHaveTitleAndUrl ==
    (extracted.done /\ NoCardRaises) =>
        /\ Len(extracted.candidates) = Cardinality(Resolvable(page))
        /\ \A i \in 1..Len(extracted.candidates) :
              /\ extracted.candidates[i].title # <<>>
              /\ extracted.candidates[i].job_url.host # ""
              /\ extracted.candidates[i].job_url.path # ""

\* the card parses into a Job
Parses(card) ==
    card.title.found /\ card.href.kind \notin {"none", "empty"} /\ ~card.raises

\* the cards that parse and pass the filter
Kept(cards, excl) ==
    {i \in 1..Len(cards) :
        Parses(cards[i]) /\ ~Rejectable(extract_job_data(cards[i])[1], excl)}

\* position of index i among the indices S
RankIn(S, i) == Cardinality({k \in S : k <= i})

\* C17: a card that fails to parse does not end the page: the jobs returned
\* are those of all the cards that parse and pass the filter, in document
\* order, and the run goes on to look for the next page.
C17_FailedCardIsSkipped ==
    extracted.done =>
        /\ Len(extracted.jobs) = Cardinality(Kept(page, excluded))
        /\ \A i \in Kept(page, excluded) :
              extracted.jobs[RankIn(Kept(page, excluded), i)]
                 = extract_job_data(page[i])[1]
        /\ \A j \in DOMAIN jobs :
              /\ exc[j] \notin CrawlErrors
              /\ pc[j] = "next_page" \/ Len(calls[j]) = 2

\* a page whose middle card raised, its neighbours returned in order, the run
\* completed
C17_Witness ==
    /\ extracted.done
    /\ Len(page) = 3 /\ page[2].raises
    /\ PathsOf(extracted.jobs) = <<"U2", "U1">>
    /\ \E j \in DOMAIN jobs :
          /\ jobs[j].status = COMPLETED /\ jobs[j].jobs_found = 2
          /\ calls[j] = <<"wait_ok", "no_next">>

\* C18: every job that is RUNNING is later COMPLETED or FAILED.
C18_RunningEnds ==
    \A j \in JobIds :
        (j \in DOMAIN jobs /\ jobs[j].status = RUNNING)
            ~> (j \in DOMAIN jobs /\ jobs[j].status \in Terminal)

\* a run that met a selector timeout, a page advance and a failing write
C18_Witness ==
    \E j \in DOMAIN jobs :
        /\ jobs[j].status = FAILED
        /\ calls[j] = <<"wait_timeout", "click", "wait_ok", "click">>
        /\ jobs[j].error = "seen write failed"

\* the run of job j records its end in this step
Finishes(j) ==
    j \in DOMAIN jobs /\ jobs[j].status = RUNNING /\ jobs'[j].status \in Terminal

\* the event announcing a final status
EventOf(status) == IF status = COMPLETED THEN "scrape.completed" ELSE "scrape.failed"

\* C19: when a run ends COMPLETED (FAILED), one scrape.completed
\* (scrape.failed) delivery is attempted to each registered subscription that
\* asked for that event and to no other; whether the deliveries succeed or fail,
\* the job's status, counters and error are those of the run, and they do not
\* change afterwards.
C19_DispatchToSubscribers ==
    [][\A j \in JobIds :
          /\ Finishes(j) =>
                LET event == EventOf(jobs'[j].status)
                    sent == deliveries' \ deliveries
                IN /\ {d.webhook : d \in sent}
                         = {w \in DOMAIN webhooks : event \in asked[w]}
                   /\ Cardinality(sent) = Cardinality({d.webhook : d \in sent})
                   /\ \A d \in sent : d.event = event /\ d.job_id = j
                   /\ jobs'[j].status = IF exc[j] = NoError THEN COMPLETED ELSE FAILED
                   /\ jobs'[j].error = exc[j]
                   /\ jobs'[j].status = COMPLETED =>
                         /\ jobs'[j].jobs_found = Len(scr[j].jobs)
                         /\ jobs'[j].jobs_new = sav[j].jobs_new
          /\ (j \in DOMAIN jobs /\ jobs[j].status \in Terminal) =>
                /\ jobs'[j] = jobs[j]
                /\ {d \in deliveries' : d.job_id = j} = {d \in deliveries : d.job_id = j}
      ]_vars

\* a completed run whose delivery to the first subscriber failed and whose
\* delivery to the second succeeded
C19_Witness ==
    \E j \in DOMAIN jobs :
        /\ jobs[j].status = COMPLETED /\ jobs[j].jobs_found = 1
        /\ deliveries =
              {[webhook |-> 1, event |-> "scrape.completed", job_id |-> j, ok |-> FALSE],
               [webhook |-> 2, event |-> "scrape.completed", job_id |-> j, ok |-> TRUE]}

\* C20: deleting a registered webhook reports success with 204 and removes
\* that subscription only; deleting an id that is not registered reports 404
\* and leaves the registry as it is; asking for a job id that was never given
\* is answered 404.
C20_DeleteAndNotFound ==
    /\ [](\A id \in 1..(MaxJobs + 1) :
            get_scrape_status(id).code = IF id \in DOMAIN jobs THEN 200 ELSE 404)
    /\ [][(api'.n # api.n /\ api'.op = "delete_webhook") =>
            IF api'.arg \in DOMAIN webhooks
            THEN /\ api'.ret.success /\ api'.ret.code = 204
                 /\ DOMAIN webhooks' = DOMAIN webhooks \ {api'.arg}
                 /\ \A w \in DOMAIN webhooks' : webhooks'[w] = webhooks[w]
            ELSE /\ ~api'.ret.success /\ api'.ret.code = 404
                 /\ webhooks' = webhooks
         ]_vars

\* the first webhook was deleted, a second delete of it was answered 404, and
\* the other webhook is still registered
C20_Witness ==
    /\ api.n = 2 /\ api.op = "delete_webhook" /\ api.arg = 1
    /\ api.ret.code = 404
    /\ DOMAIN asked = {1, 2} /\ DOMAIN webhooks = {2}
    /\ get_scrape_status(1).code = 404

\* the jobs of the table a status filter lets through
Passing(status) ==
    {j \in DOMAIN jobs : status = NoFilter \/ jobs[j].status = status}

\* C21: for every status filter and limit, the job list holds at most limit
\* jobs, each once and each passing the filter, latest created first, and no
\* job left out passes the filter and was created after a listed one; when
\* fewer than limit are listed, every passing job is listed.
C21_ListJobs ==
    \A status \in {NoFilter, PENDING, RUNNING, COMPLETED, FAILED} :
        \A limit \in 1..(MaxJobs + 1) :
            LET r == list_scrape_jobs(status, limit)
                listed == {r[i].job_id : i \in 1..Len(r)}
            IN /\ Len(r) <= limit
               /\ Cardinality(listed) = Len(r)
               /\ listed \subseteq Passing(status)
               /\ \A i \in 1..Len(r) :
                     /\ r[i] = StatusResponse(jobs[r[i].job_id])
                     /\ \A k \in (i + 1)..Len(r) : r[i].created_at >= r[k].created_at
               /\ \A j \in Passing(status) \ listed :
                     /\ Len(r) = limit
                     /\ \A i \in 1..Len(r) : jobs[j].created_at <= r[i].created_at

\* an older completed job and a newer running one: the newer one alone fills
\* a list of one, the older one alone passes the COMPLETED filter
C21_Witness ==
    /\ Len(jobs) = 2
    /\ jobs[1].created_at < jobs[2].created_at
    /\ jobs[1].status = COMPLETED /\ jobs[2].status = RUNNING
    /\ list_scrape_jobs(NoFilter, 1) = <<StatusResponse(jobs[2])>>
    /\ list_scrape_jobs(COMPLETED, 2) = <<StatusResponse(jobs[1])>>

\* C22: whenever a scrape.completed delivery has been attempted for a job, the
\* job is COMPLETED with its completion time set, its crawl has returned, and
\* every record of the run is in the Record Store and marked in the Dedup
\* Store (stated for runs that each had at least one record to save).
C22_NotifiedAfterPersisted ==
    \A d \in deliveries :
        (d.event = "scrape.completed" /\ NoEmptyCrawl) =>
            LET j == d.job_id IN
              /\ jobs[j].status = COMPLETED
              /\ jobs[j].completed_at # Null
              /\ CrawlReturned(j)
              /\ UrlsOf(jobs[j].results) \subseteq UrlsOf(outputFile)
              /\ UrlsOf(jobs[j].results) \subseteq DOMAIN seenFile

\* C23: no job record leaves the job table; a record changes only in a step
\* of that job's own run, which leaves every other job's record, and the
\* job's id and creation time, as they were.
C23_JobRecordsIsolated ==
    [][\A j \in DOMAIN jobs :
          /\ j \in DOMAIN jobs'
          /\ jobs'[j] # jobs[j] =>
                /\ pc'[j] # pc[j]
                /\ jobs'[j].job_id = jobs[j].job_id
                /\ jobs'[j].created_at = jobs[j].created_at
                /\ \A k \in DOMAIN jobs \ {j} : jobs'[k] = jobs[k] /\ pc'[k] = pc[k]
      ]_vars

\* the first job has failed while the second, started before that, is still
\* running untouched
C23_Witness ==
    /\ Len(jobs) = 2
    /\ jobs[1].status = FAILED /\ jobs[1].error = "navigation failed"
    /\ jobs[2].status = RUNNING /\ jobs[2].error = NoError
    /\ jobs[2].completed_at = Null
    /\ jobs[2].started_at < jobs[1].completed_at

\* pages whose listings container appeared, each yielding its records
PagesRead(j) == Cardinality({i \in 1..Len(calls[j]) : calls[j][i] = "wait_ok"})

\* the selectors whose match was visible at the last next-page step of run j
VisibleAt(j) == {i \in 1..NumSelectors : nav[j].ctl[i] = "visible"}

\* C24: a next-page step in which no call on the controls raised clicked the
\* control of the first selector, in the fixed order, whose match was visible,
\* hidden matches before it notwithstanding; when no match was visible it
\* clicked nothing, and the crawl ended without an error, holding the records
\* of every page extracted.
C24_FirstVisibleControl ==
    \A j \in DOMAIN jobs :
        (nav[j].set /\ nav[j].act # "query_error") =>
            /\ VisibleAt(j) # {} =>
                  /\ nav[j].clicked \in VisibleAt(j)
                  /\ \A i \in VisibleAt(j) : nav[j].clicked <= i
                  /\ \E i \in 1..Len(calls[j]) : calls[j][i] \in Activations
            /\ VisibleAt(j) = {} =>
                  /\ nav[j].clicked = 0
                  /\ calls[j][Len(calls[j])] = "no_next"
                  /\ CrawlReturned(j)
                  /\ pc[j] \notin {"scrape_page", "next_page"}
                  /\ Len(scr[j].jobs) = PagesRead(j)

\* the second selector's match was hidden and the fifth's visible: the fifth
\* was clicked and the crawl went on to the second page
C24_Witness ==
    \E j \in DOMAIN jobs :
        /\ calls[j] = <<"wait_ok", "click">>
        /\ nav[j].set /\ nav[j].act = "ok"
        /\ nav[j].ctl = Ctl({2}, {5}) /\ nav[j].clicked = 5
        /\ pc[j] = "scrape_page" /\ scr[j].page_num = 2

\* next-page steps of run j in which the control was clicked
Clicks(j) ==
    Cardinality({i \in 1..Len(calls[j]) : calls[j][i] \in {"click", "load_error"}})

\* C25: a run capped at max_pages clicks the next-page control at most
\* max_pages - 1 times.
C25_ClicksBelowCap == \A j \in JobIds : Clicks(j) <= max_pages - 1

\* C26: a cleanup_old_jobs call leaves the Dedup Store as it was, identities
\* and last-seen times alike, whether or not it removed a record.
C26_CleanupLeavesDedupStore ==
    [][cleanups' = cleanups + 1 => seenFile' = seenFile]_vars

\* the positions of a run inside the try block of scrape()
InTry == {"goto", "scrape_page", "next_page"}

\* C27: the browser of a run is open only while the run is inside the crawl;
\* however the crawl ended (page cap, no next control, an exception raised by
\* the navigation or by the extraction) the browser is closed, and a run that
\* has finished never holds an open browser.
C27_BrowserClosedAtEnd ==
    \A j \in JobIds :
        /\ scr[j].browser = "open" => pc[j] \in InTry
        /\ (pc[j] \notin InTry \cup {"idle", "launch"} /\ exc[j] # "browser launch failed")
              => scr[j].browser = "closed"

\* a crawl ended by an exception of the extraction on its second page: the
\* browser is closed and the run goes on to fail
C27_Witness ==
    \E j \in JobIds :
        /\ calls[j] = <<"wait_ok", "click", "wait_error">>
        /\ exc[j] = "page error" /\ pc[j] = "fail"
        /\ scr[j].browser = "closed"

\* the next-page steps that ended in an exception
NavErrors == {"query_error", "click_error", "load_error"}

StorageErrors == {"output write failed", "seen write failed"}

\* C28: an exception raised while the next-page control is located, clicked or
\* waited on is the last call of the crawl and does not fail the run: the
\* crawl returns, without error, the records of every page read, and the job
\* fails only if the save that follows fails.
C28_NavErrorEndsCrawl ==
    \A j \in DOMAIN jobs : \A i \in 1..Len(calls[j]) :
        calls[j][i] \in NavErrors =>
            /\ i = Len(calls[j])
            /\ CrawlReturned(j)
            /\ pc[j] \notin InTry
            /\ Len(scr[j].jobs) = PagesRead(j)
            /\ exc[j] # "null" => exc[j] \in StorageErrors
            /\ jobs[j].status = FAILED => exc[j] \in StorageErrors
            /\ jobs[j].status = COMPLETED => jobs[j].jobs_found = PagesRead(j)

\* the load-state wait after the click on the second page timed out: the job
\* completed with the records of both pages
C28_Witness ==
    \E j \in DOMAIN jobs :
        /\ calls[j] = <<"wait_ok", "click", "wait_ok", "load_error">>
        /\ nav[j].act = "load_error" /\ nav[j].clicked > 0
        /\ jobs[j].status = COMPLETED /\ jobs[j].jobs_found = 2

\* the identities a step stamps in the Dedup Store
MarkedSeen ==
    {u \in DOMAIN seenFile' : u \notin DOMAIN seenFile \/ seenFile'[u] # seenFile[u]}

\* C29: whenever an identity is marked as seen, a record with that identity
\* is in the Record Store: the write of the Record Store comes first, so a
\* record may be stored and not yet marked, never marked and not stored.
C29_MarkedSeenAreStored ==
    [][MarkedSeen \subseteq UrlsOf(outputFile')]_vars

\* the Jobs the extractor built and the Jobs in the Record Store
HeldJobs ==
    {extracted.candidates[i] : i \in 1..Len(extracted.candidates)}
        \cup {StoredJob(outputFile[i]) : i \in 1..Len(outputFile)}

\* a step leaves the job_url of every Job of the list as it was
KeepsUrls(js, after) ==
    \A i \in 1..Len(js) : i <= Len(after) /\ after[i].job_url = js[i].job_url

\* C30: two Jobs are equal exactly when their job_url is the same, and then
\* they have the same hash and the same short identifier, whatever their
\* other fields; the records the crawl returns carry the URLs the extractor
\* built, and no step of the extractor or of the stores changes the job_url
\* of a Job already extracted, returned or stored.
C30_IdentityIsUrl ==
    /\ [](\A a, b \in HeldJobs :
            /\ eq(a, b) <=> a.job_url = b.job_url
            /\ a.job_url = b.job_url => hash(a) = hash(b) /\ job_id_str(a) = job_id_str(b))
    /\ [](\A j \in DOMAIN jobs :
            (extracted.done /\ pc[j] \notin InTry)
                => PathsOf(extracted.jobs) = [i \in 1..Len(scr[j].jobs) |-> scr[j].jobs[i].job_url])
    /\ [][/\ KeepsUrls(outputFile, outputFile')
          /\ \A j \in JobIds : KeepsUrls(scr[j].jobs, scr'[j].jobs)
          /\ KeepsUrls(extracted.candidates, extracted'.candidates)
          /\ KeepsUrls(extracted.jobs, extracted'.jobs)]_vars

\* two cards with the same link and different titles and companies were
\* extracted, and both records are in the Record Store after a cleanup
C30_Witness ==
    /\ \E a, b \in HeldJobs :
          /\ a.job_url = b.job_url /\ a.job_url.path = "U2"
          /\ DOMAIN a = DOMAIN b /\ a # b /\ eq(a, b)
    /\ \E a \in HeldJobs : job_id_str(a) = <<"1">>
    /\ \E i, k \in 1..Len(outputFile) :
          i < k /\ outputFile[i].job_url = "U2" /\ outputFile[k].job_url = "U2"
    /\ cleanups > 0

====
